---- MODULE Spec2Model ----
(***************************************************************************)
(* The single-pass recursive-descent parser / code generator of            *)
(* src/code_generator.c, as a state machine.  The C globals are the        *)
(* variables; the C call stack is the variable `stack`; every grammar      *)
(* function is one action that runs the function body from its current     *)
(* position up to its next call or return.                                 *)
(***************************************************************************)
EXTENDS Integers, Sequences, FiniteSets, TLC

\* ------------------------------------------------------------------ bounds
MAX_CODE_LENGTH == 16

\* ------------------------------------------------------------------ tokens
Names == {"a", "b", "c", "p", "q", "x", "y"}

Keywords ==
  [w \in {"+", "-", "*", "/", "odd", "=", "<>", "<", "<=", ">", ">=", "(", ")",
          ",", ";", ".", ":=", "begin", "end", "if", "then", "while", "do",
          "call", "const", "var", "procedure", "write", "read", "else"} |->
     CASE w = "+" -> "plussym"       [] w = "-" -> "minussym"
       [] w = "*" -> "multsym"       [] w = "/" -> "slashsym"
       [] w = "odd" -> "oddsym"      [] w = "=" -> "eqsym"
       [] w = "<>" -> "neqsym"       [] w = "<" -> "lessym"
       [] w = "<=" -> "leqsym"       [] w = ">" -> "gtrsym"
       [] w = ">=" -> "geqsym"       [] w = "(" -> "lparentsym"
       [] w = ")" -> "rparentsym"    [] w = "," -> "commasym"
       [] w = ";" -> "semicolonsym"  [] w = "." -> "periodsym"
       [] w = ":=" -> "becomessym"   [] w = "begin" -> "beginsym"
       [] w = "end" -> "endsym"      [] w = "if" -> "ifsym"
       [] w = "then" -> "thensym"    [] w = "while" -> "whilesym"
       [] w = "do" -> "dosym"        [] w = "call" -> "callsym"
       [] w = "const" -> "constsym"  [] w = "var" -> "varsym"
       [] w = "procedure" -> "procsym" [] w = "write" -> "writesym"
       [] w = "read" -> "readsym"    [] w = "else" -> "elsesym"]

\* The text of a number token, one character per element.
NumberText ==
  [w \in {"0", "1", "5", "12"} |->
     CASE w = "0" -> <<"0">> [] w = "1" -> <<"1">>
       [] w = "5" -> <<"5">> [] w = "12" -> <<"1", "2">>]

\* One token of the token list: its id and its text.
Token(w) ==
  IF w \in Names THEN [id |-> "identsym", lexeme |-> <<w>>]
  ELSE IF w \in DOMAIN NumberText THEN [id |-> "numbersym", lexeme |-> NumberText[w]]
  ELSE [id |-> Keywords[w], lexeme |-> <<w>>]

TokenListOf(words) == [i \in 1..Len(words) |-> Token(words[i])]

DigitValue ==
  [c \in {"0", "1", "2", "3", "4", "5", "6", "7", "8", "9"} |->
     CASE c = "0" -> 0 [] c = "1" -> 1 [] c = "2" -> 2 [] c = "3" -> 3
       [] c = "4" -> 4 [] c = "5" -> 5 [] c = "6" -> 6 [] c = "7" -> 7
       [] c = "8" -> 8 [] c = "9" -> 9]

RECURSIVE atoiFrom(_, _, _)
atoiFrom(text, i, acc) ==
  IF i > Len(text) \/ text[i] \notin DOMAIN DigitValue THEN acc
  ELSE atoiFrom(text, i + 1, acc * 10 + DigitValue[text[i]])

\* atoi(): the value of the leading decimal digits, 0 when there are none.
atoi(text) == atoiFrom(text, 1, 0)

\* ------------------------------------------------------------------- state
VARIABLES
  tokenList,        \* _token_list_it.tokenList (<<>> when reset to NULL)
  currentTokenInd,  \* _token_list_it.currentTokenInd
  currentLevel,
  currentScope,     \* 0 is NULL; n > 0 is the Proc symbol added as entry n
  symbolTable,
  vmCode,
  nextCodeIndex,
  currentReg,
  stack,            \* the C call stack of the grammar functions
  status,           \* "idle", "running", "returned", "exited", "crashed"
  result,           \* value returned by codeGenerator (-1: none yet)
  out,              \* lines printed to _out by printEmittedCodes
  input,            \* history: the tokenList argument of codeGenerator
  ret,              \* history: the frame that has just returned, err its value
  firstErr,         \* history: first nonzero code returned by a production
  errTokenInd,      \* history: cursor when that code was returned
  mWrites,          \* history: rewrites of vmCode[i].m since it was emitted
  wildRead,         \* history: a field was read through a NULL Symbol pointer
  history           \* history: input, return value and output of the calls made

vars == <<tokenList, currentTokenInd, currentLevel, currentScope, symbolTable,
          vmCode, nextCodeIndex, currentReg, stack, status, result, out, input,
          ret, firstErr, errTokenInd, mWrites, wildRead, history>>

NULL == 0

Instruction(OP, R, L, M) == [op |-> OP, r |-> R, l |-> L, m |-> M]

\* ----------------------------------------------------------- token cursor
NulToken == [id |-> "nulsym", lexeme |-> <<>>]

TokenAt(i) == IF i < Len(tokenList) THEN tokenList[i + 1] ELSE NulToken

getCurrentToken == TokenAt(currentTokenInd)

getCurrentTokenType == getCurrentToken.id

TypeAt(i) == TokenAt(i).id

\* ------------------------------------------------------------ symbol table
Symbol(type, name, level, scope, value, address) ==
  [type |-> type, name |-> name, level |-> level, scope |-> scope,
   value |-> value, address |-> address]

RECURSIVE findSymbol(_, _, _)
findSymbol(table, scope, name) ==
  LET here == {i \in 1..Len(table) : table[i].name = name /\ table[i].scope = scope}
  IN IF here # {} THEN CHOOSE i \in here : \A j \in here : j <= i
     ELSE IF scope = NULL THEN NULL
     ELSE findSymbol(table, table[scope].scope, name)

\* --------------------------------------------------------------- call stack
Frame(fn) ==
  [fn |-> fn, pc |-> "start", err |-> 0, op |-> "nulsym", jmp |-> 0, jmp2 |-> 0,
   jmpAddr |-> 0, tempSym |-> NULL, tok0 |-> 0, nci0 |-> 0]

\* `ret` when no call has just returned.
NoRet == Frame("none")

Top == stack[Len(stack)]

At(fn) == status = "running" /\ Len(stack) > 0 /\ Top.fn = fn

\* ------------------------------------------------------------------- emit
\* A code operation of one step: emit(OP, R, L, M), or vmCode[at].m = m.
EMIT(OP, R, L, M) == [k |-> "emit", at |-> 0, ins |-> Instruction(OP, R, L, M)]
PATCH(at, m) == [k |-> "patch", at |-> at, ins |-> Instruction("JMP", 0, 0, m)]

\* Variant: the capacity test is one slot late.
emit_offByOne(c, ins) ==
  IF c.nci = MAX_CODE_LENGTH + 1 THEN [c EXCEPT !.exited = TRUE]
  ELSE [c EXCEPT !.code[c.nci] = ins, !.nci = c.nci + 1, !.mw[c.nci] = 0]

emit(c, ins) ==
  IF c.nci = MAX_CODE_LENGTH THEN [c EXCEPT !.exited = TRUE]
  ELSE [c EXCEPT !.code[c.nci] = ins, !.nci = c.nci + 1, !.mw[c.nci] = 0]

backpatch(c, at, m) ==
  [c EXCEPT !.code[at].m = m, !.mw[at] = c.mw[at] + 1]

RECURSIVE RunOps(_, _, _)
RunOps(c, ops, i) ==
  IF i > Len(ops) \/ c.exited THEN c
  ELSE RunOps(IF ops[i].k = "emit" THEN emit(c, ops[i].ins)
              ELSE backpatch(c, ops[i].at, ops[i].ins.m), ops, i + 1)

\* ------------------------------------------------------- one step of a body
\* What one step does: nextToken() `adv` times, the code operations `ops`,
\* the symbols added, the new level and scope, and how control leaves the step.
Eff(adv, ops, ctl) ==
  [adv |-> adv, ops |-> ops, syms |-> <<>>, lvl |-> currentLevel,
   scope |-> currentScope, ctl |-> ctl, wild |-> FALSE]

RET(v) == [k |-> "ret", val |-> v, fn |-> "none", frame |-> Top]
CALL(fn, frame) == [k |-> "call", val |-> 0, fn |-> fn, frame |-> frame]
GOTO(frame) == [k |-> "goto", val |-> 0, fn |-> "none", frame |-> frame]
CRASH == [k |-> "crash", val |-> 0, fn |-> "none", frame |-> Top]

ReplaceTop(frame) == [stack EXCEPT ![Len(stack)] = frame]

PopWith(v) ==
  [i \in 1..(Len(stack) - 1) |->
     IF i = Len(stack) - 1 THEN [stack[i] EXCEPT !.err = v] ELSE stack[i]]

Apply(e) ==
  LET c == RunOps([code |-> vmCode, nci |-> nextCodeIndex, exited |-> FALSE,
                   mw |-> mWrites], e.ops, 1)
  IN /\ vmCode' = c.code
     /\ nextCodeIndex' = c.nci
     /\ mWrites' = c.mw
     /\ wildRead' = (wildRead \/ e.wild)
     /\ UNCHANGED <<tokenList, currentReg, result, out, input, history>>
     /\ IF c.exited
        THEN \* exit(0) inside emit: the process is gone
             /\ status' = "exited"
             /\ stack' = <<>>
             /\ ret' = NoRet
             /\ UNCHANGED <<currentTokenInd, currentLevel, currentScope,
                            symbolTable, firstErr, errTokenInd>>
        ELSE IF e.ctl.k = "crash"
        THEN /\ status' = "crashed"
             /\ stack' = <<>>
             /\ ret' = NoRet
             /\ UNCHANGED <<currentTokenInd, currentLevel, currentScope,
                            symbolTable, firstErr, errTokenInd>>
        ELSE /\ status' = "running"
             /\ currentTokenInd' = currentTokenInd + e.adv
             /\ symbolTable' = symbolTable \o e.syms
             /\ currentLevel' = e.lvl
             /\ currentScope' = e.scope
             /\ IF e.ctl.k = "ret"
                THEN /\ stack' = PopWith(e.ctl.val)
                     /\ ret' = [Top EXCEPT !.err = e.ctl.val]
                     /\ firstErr' = IF firstErr = 0 THEN e.ctl.val ELSE firstErr
                     /\ errTokenInd' = IF firstErr = 0 /\ e.ctl.val # 0
                                       THEN currentTokenInd + e.adv
                                       ELSE errTokenInd
                ELSE /\ stack' = IF e.ctl.k = "call"
                                 THEN Append(ReplaceTop(e.ctl.frame),
                                        [Frame(e.ctl.fn) EXCEPT
                                           !.tok0 = currentTokenInd + e.adv,
                                           !.nci0 = c.nci])
                                 ELSE ReplaceTop(e.ctl.frame)
                     /\ ret' = NoRet
                     /\ UNCHANGED <<firstErr, errTokenInd>>

F == Top
cur == currentTokenInd
nci == nextCodeIndex
AtPc(pc) == [F EXCEPT !.pc = pc]

\* --------------------------------------------------------------- program()
\* Variant: halt is emitted before the period is looked for.
program_step_haltFirst ==
  IF F.pc = "start" THEN Eff(0, <<>>, CALL("block", AtPc("afterBlock")))
  ELSE IF F.err # 0 THEN Eff(0, <<>>, RET(F.err))
  ELSE IF getCurrentTokenType = "periodsym"
       THEN Eff(1, <<EMIT("SIO_HALT", 0, 0, 3)>>, RET(0))
       ELSE Eff(0, <<EMIT("SIO_HALT", 0, 0, 3)>>, RET(6))

program_step ==
  IF F.pc = "start" THEN Eff(0, <<>>, CALL("block", AtPc("afterBlock")))
  ELSE IF F.err # 0 THEN Eff(0, <<>>, RET(F.err))
  ELSE IF getCurrentTokenType = "periodsym"
       THEN Eff(1, <<EMIT("SIO_HALT", 0, 0, 3)>>, RET(0))
       ELSE Eff(0, <<>>, RET(6))

program == At("program") /\ Apply(program_step)

\* ----------------------------------------------------------------- block()
\* Variant: the block's JMP is aimed past the INC 0 0 4.
block_step_patchLate ==
  CASE F.pc = "start" ->
         IF getCurrentTokenType = "constsym"
         THEN Eff(0, <<EMIT("JMP", 0, 0, 0)>>,
                  CALL("const_declaration", [F EXCEPT !.pc = "afterConst", !.jmpAddr = nci]))
         ELSE Eff(0, <<EMIT("JMP", 0, 0, 0)>>,
                  GOTO([F EXCEPT !.pc = "afterConst", !.jmpAddr = nci]))
    [] F.pc = "afterConst" ->
         IF F.err # 0 THEN Eff(0, <<>>, RET(F.err))
         ELSE IF getCurrentTokenType = "varsym"
         THEN Eff(0, <<>>, CALL("var_declaration", AtPc("afterVar")))
         ELSE Eff(0, <<>>, GOTO(AtPc("afterVar")))
    [] F.pc = "afterVar" ->
         IF F.err # 0 THEN Eff(0, <<>>, RET(F.err))
         ELSE IF getCurrentTokenType = "procsym"
         THEN Eff(0, <<>>, CALL("proc_declaration", AtPc("afterProc")))
         ELSE Eff(0, <<>>, GOTO(AtPc("afterProc")))
    [] F.pc = "afterProc" ->
         IF F.err # 0 THEN Eff(0, <<>>, RET(F.err))
         ELSE Eff(0, <<PATCH(F.jmpAddr, nci + 1), EMIT("INC", 0, 0, 4)>>,
                  CALL("statement", AtPc("afterStmt")))
    [] OTHER ->
         IF F.err # 0 THEN Eff(0, <<>>, RET(F.err))
         ELSE Eff(0, <<EMIT("RTN", 0, 0, 0)>>, RET(0))

block_step ==
  CASE F.pc = "start" ->
         IF getCurrentTokenType = "constsym"
         THEN Eff(0, <<EMIT("JMP", 0, 0, 0)>>,
                  CALL("const_declaration", [F EXCEPT !.pc = "afterConst", !.jmpAddr = nci]))
         ELSE Eff(0, <<EMIT("JMP", 0, 0, 0)>>,
                  GOTO([F EXCEPT !.pc = "afterConst", !.jmpAddr = nci]))
    [] F.pc = "afterConst" ->
         IF F.err # 0 THEN Eff(0, <<>>, RET(F.err))
         ELSE IF getCurrentTokenType = "varsym"
         THEN Eff(0, <<>>, CALL("var_declaration", AtPc("afterVar")))
         ELSE Eff(0, <<>>, GOTO(AtPc("afterVar")))
    [] F.pc = "afterVar" ->
         IF F.err # 0 THEN Eff(0, <<>>, RET(F.err))
         ELSE IF getCurrentTokenType = "procsym"
         THEN Eff(0, <<>>, CALL("proc_declaration", AtPc("afterProc")))
         ELSE Eff(0, <<>>, GOTO(AtPc("afterProc")))
    [] F.pc = "afterProc" ->
         IF F.err # 0 THEN Eff(0, <<>>, RET(F.err))
         ELSE Eff(0, <<PATCH(F.jmpAddr, nci), EMIT("INC", 0, 0, 4)>>,
                  CALL("statement", AtPc("afterStmt")))
    [] OTHER ->
         IF F.err # 0 THEN Eff(0, <<>>, RET(F.err))
         ELSE Eff(0, <<EMIT("RTN", 0, 0, 0)>>, RET(0))

block == At("block") /\ Apply(block_step)

\* ----------------------------------------------------- const_declaration()
\* One iteration of the do-while; `addr` is what the never-assigned address
\* field of the malloc'ed Symbol happens to hold.
\* Variant: every constant is recorded at level 0.
const_declaration_step_levelZero(addr) ==
  IF TypeAt(cur + 1) # "identsym" THEN Eff(1, <<>>, RET(3))
  ELSE IF TypeAt(cur + 2) # "eqsym" THEN Eff(2, <<>>, RET(2))
  ELSE IF TypeAt(cur + 3) # "numbersym" THEN Eff(3, <<>>, RET(1))
  ELSE LET newSym == Symbol("CONST", TokenAt(cur + 1).lexeme, 0,
                            currentScope, atoi(TokenAt(cur + 3).lexeme), addr)
           added(e) == [e EXCEPT !.syms = <<newSym>>]
       IN IF TypeAt(cur + 4) = "commasym" THEN added(Eff(4, <<>>, GOTO(F)))
          ELSE IF TypeAt(cur + 4) # "semicolonsym" THEN added(Eff(4, <<>>, RET(10)))
          ELSE added(Eff(5, <<>>, RET(0)))

const_declaration_step(addr) ==
  IF TypeAt(cur + 1) # "identsym" THEN Eff(1, <<>>, RET(3))
  ELSE IF TypeAt(cur + 2) # "eqsym" THEN Eff(2, <<>>, RET(2))
  ELSE IF TypeAt(cur + 3) # "numbersym" THEN Eff(3, <<>>, RET(1))
  ELSE LET newSym == Symbol("CONST", TokenAt(cur + 1).lexeme, currentLevel,
                            currentScope, atoi(TokenAt(cur + 3).lexeme), addr)
           added(e) == [e EXCEPT !.syms = <<newSym>>]
       IN IF TypeAt(cur + 4) = "commasym" THEN added(Eff(4, <<>>, GOTO(F)))
          ELSE IF TypeAt(cur + 4) # "semicolonsym" THEN added(Eff(4, <<>>, RET(10)))
          ELSE added(Eff(5, <<>>, RET(0)))

\* ------------------------------------------------------- var_declaration()
\* Variant: the address is taken after the variable's INC.
var_declaration_step_addressAfter ==
  IF TypeAt(cur + 1) # "identsym" THEN Eff(1, <<>>, RET(3))
  ELSE LET newSym == Symbol("VAR", TokenAt(cur + 1).lexeme, currentLevel,
                            currentScope, 0, nci + 1)
           added(e) == [e EXCEPT !.syms = <<newSym>>]
           inc == <<EMIT("INC", 0, 0, 1)>>
       IN IF TypeAt(cur + 2) = "commasym" THEN added(Eff(2, inc, GOTO(F)))
          ELSE IF TypeAt(cur + 2) # "semicolonsym" THEN added(Eff(2, inc, RET(4)))
          ELSE added(Eff(3, inc, RET(0)))

var_declaration_step ==
  IF TypeAt(cur + 1) # "identsym" THEN Eff(1, <<>>, RET(3))
  ELSE LET newSym == Symbol("VAR", TokenAt(cur + 1).lexeme, currentLevel,
                            currentScope, 0, nci)
           added(e) == [e EXCEPT !.syms = <<newSym>>]
           inc == <<EMIT("INC", 0, 0, 1)>>
       IN IF TypeAt(cur + 2) = "commasym" THEN added(Eff(2, inc, GOTO(F)))
          ELSE IF TypeAt(cur + 2) # "semicolonsym" THEN added(Eff(2, inc, RET(4)))
          ELSE added(Eff(3, inc, RET(0)))

var_declaration == At("var_declaration") /\ Apply(var_declaration_step)

\* ------------------------------------------------------ proc_declaration()
\* Variant: the symbol records the address after the block's JMP.
proc_declaration_step_addressLate ==
  IF F.pc = "start"
  THEN IF getCurrentTokenType # "procsym" THEN Eff(0, <<>>, RET(0))
       ELSE IF TypeAt(cur + 1) # "identsym" THEN Eff(1, <<>>, RET(3))
       ELSE LET newSym == Symbol("PROC", TokenAt(cur + 1).lexeme, currentLevel,
                                 currentScope, 0, nci + 1)
                added(e) == [e EXCEPT !.syms = <<newSym>>]
            IN IF TypeAt(cur + 2) # "semicolonsym" THEN added(Eff(2, <<>>, RET(5)))
               ELSE [added(Eff(3, <<>>,
                        CALL("block", [F EXCEPT !.pc = "afterBlock",
                                                !.tempSym = currentScope])))
                     EXCEPT !.scope = Len(symbolTable) + 1,
                            !.lvl = currentLevel + 1]
  ELSE IF F.err # 0 THEN Eff(0, <<>>, RET(F.err))
       ELSE LET restored(e) == [e EXCEPT !.lvl = currentLevel - 1,
                                         !.scope = F.tempSym]
            IN IF getCurrentTokenType # "semicolonsym"
               THEN restored(Eff(0, <<>>, RET(5)))
               ELSE restored(Eff(1, <<>>, GOTO(AtPc("start"))))

proc_declaration_step ==
  IF F.pc = "start"
  THEN IF getCurrentTokenType # "procsym" THEN Eff(0, <<>>, RET(0))
       ELSE IF TypeAt(cur + 1) # "identsym" THEN Eff(1, <<>>, RET(3))
       ELSE LET newSym == Symbol("PROC", TokenAt(cur + 1).lexeme, currentLevel,
                                 currentScope, 0, nci)
                added(e) == [e EXCEPT !.syms = <<newSym>>]
            IN IF TypeAt(cur + 2) # "semicolonsym" THEN added(Eff(2, <<>>, RET(5)))
               ELSE [added(Eff(3, <<>>,
                        CALL("block", [F EXCEPT !.pc = "afterBlock",
                                                !.tempSym = currentScope])))
                     EXCEPT !.scope = Len(symbolTable) + 1,
                            !.lvl = currentLevel + 1]
  ELSE IF F.err # 0 THEN Eff(0, <<>>, RET(F.err))
       ELSE LET restored(e) == [e EXCEPT !.lvl = currentLevel - 1,
                                         !.scope = F.tempSym]
            IN IF getCurrentTokenType # "semicolonsym"
               THEN restored(Eff(0, <<>>, RET(5)))
               ELSE restored(Eff(1, <<>>, GOTO(AtPc("start"))))

proc_declaration == At("proc_declaration") /\ Apply(proc_declaration_step)

\* Values an uninitialised int of a malloc'ed Symbol can hold.
Uninitialised == {0, 7}

const_declaration ==
  /\ At("const_declaration")
  /\ \E addr \in Uninitialised : Apply(const_declaration_step(addr))

\* ------------------------------------------------------------- statement()
\* What reading a field through the pointer returned by findSymbol gives.
\* For a NULL pointer the read is undefined: the process faults, or the read
\* yields whatever lies there.
Deref(i, undef) ==
  IF i # NULL THEN [fault |-> FALSE, sym |-> symbolTable[i]] ELSE undef

UndefinedReads ==
  {[fault |-> TRUE, sym |-> Symbol("VAR", <<>>, 0, NULL, 0, 0)]} \cup
  {[fault |-> FALSE, sym |-> Symbol(t, <<>>, 0, s, 0, 0)] :
      t \in {"CONST", "VAR", "PROC"}, s \in {currentScope, -1}}

\* currentLevel - currSym->level
LevelDiff(sym) == currentLevel - sym.level

\* A step that read the fields of the symbol findSymbol returned as i.
Through(i, e) == [e EXCEPT !.wild = (i = NULL)]

statement_ident(undef) ==
  LET i == findSymbol(symbolTable, currentScope, getCurrentToken.lexeme)
      d == Deref(i, undef)
      currSym == d.sym
  IN Through(i,
       IF d.fault THEN Eff(0, <<>>, CRASH)
       ELSE IF currSym.scope # currentScope THEN Eff(0, <<>>, RET(15))
       ELSE IF currSym.type # "VAR" THEN Eff(0, <<>>, RET(16))
       ELSE IF TypeAt(cur + 1) # "becomessym" THEN Eff(1, <<>>, RET(7))
       ELSE Eff(2, <<>>, CALL("expression", AtPc("assignExpr"))))

\* Variant: the call is emitted whatever kind of symbol the name resolves to.
statement_call_anyKind(undef) ==
  IF TypeAt(cur + 1) # "identsym" THEN Eff(1, <<>>, RET(8))
  ELSE LET i == findSymbol(symbolTable, currentScope, TokenAt(cur + 1).lexeme)
           d == Deref(i, undef)
           currSym == d.sym
       IN Through(i,
            IF d.fault THEN Eff(1, <<>>, CRASH)
            ELSE IF currSym.scope # currentScope THEN Eff(1, <<>>, RET(15))
            ELSE Eff(2, <<EMIT("CAL", 0, LevelDiff(currSym), currSym.address)>>, RET(0)))

statement_call(undef) ==
  IF TypeAt(cur + 1) # "identsym" THEN Eff(1, <<>>, RET(8))
  ELSE LET i == findSymbol(symbolTable, currentScope, TokenAt(cur + 1).lexeme)
           d == Deref(i, undef)
           currSym == d.sym
       IN Through(i,
            IF d.fault THEN Eff(1, <<>>, CRASH)
            ELSE IF currSym.scope # currentScope THEN Eff(1, <<>>, RET(15))
            ELSE IF currSym.type = "PROC"
            THEN Eff(2, <<EMIT("CAL", 0, LevelDiff(currSym), currSym.address)>>, RET(0))
            ELSE Eff(1, <<>>, RET(17)))

statement_begin ==
  IF F.pc = "start" THEN Eff(1, <<>>, CALL("statement", AtPc("beginStmt")))
  ELSE IF F.err # 0 THEN Eff(0, <<>>, RET(F.err))
  ELSE IF getCurrentTokenType = "semicolonsym"
       THEN Eff(1, <<>>, CALL("statement", AtPc("beginStmt")))
  ELSE IF getCurrentTokenType # "endsym" THEN Eff(0, <<>>, RET(10))
  ELSE Eff(1, <<>>, RET(0))

statement_if ==
  CASE F.pc = "start" -> Eff(1, <<>>, CALL("condition", AtPc("ifCond")))
    [] F.pc = "ifCond" ->
         IF F.err # 0 THEN Eff(0, <<>>, RET(F.err))
         ELSE IF getCurrentTokenType # "thensym" THEN Eff(0, <<>>, RET(9))
         ELSE Eff(1, <<EMIT("JPC", 0, 0, 0)>>,
                  CALL("statement", [F EXCEPT !.pc = "ifThen", !.jmp = nci]))
    [] F.pc = "ifThen" ->
         IF F.err # 0 THEN Eff(0, <<>>, RET(F.err))
         ELSE IF getCurrentTokenType = "elsesym"
         THEN Eff(1, <<PATCH(F.jmp, nci), EMIT("JMP", 0, 0, 0), PATCH(nci, nci + 1)>>,
                  CALL("statement", [F EXCEPT !.pc = "ifElse", !.jmp2 = nci]))
         ELSE Eff(0, <<PATCH(F.jmp, nci)>>, RET(0))
    [] OTHER ->
         IF F.err # 0 THEN Eff(0, <<>>, RET(F.err))
         ELSE Eff(0, <<PATCH(F.jmp, nci)>>, RET(0))

statement_while ==
  CASE F.pc = "start" ->
         Eff(1, <<>>, CALL("condition", [F EXCEPT !.pc = "whileCond", !.jmp = nci]))
    [] F.pc = "whileCond" ->
         IF F.err # 0 THEN Eff(0, <<>>, RET(F.err))
         ELSE IF getCurrentTokenType # "dosym"
         THEN Eff(0, <<EMIT("JPC", 0, 0, 0)>>, RET(11))
         ELSE Eff(1, <<EMIT("JPC", 0, 0, 0)>>,
                  CALL("statement", [F EXCEPT !.pc = "whileBody", !.jmp2 = nci]))
    [] OTHER ->
         IF F.err # 0 THEN Eff(0, <<>>, RET(F.err))
         ELSE Eff(0, <<EMIT("JMP", 0, 0, F.jmp), PATCH(F.jmp2, nci + 1)>>, RET(0))

statement_write(undef) ==
  IF TypeAt(cur + 1) # "identsym" THEN Eff(1, <<>>, RET(3))
  ELSE LET i == findSymbol(symbolTable, currentScope, TokenAt(cur + 1).lexeme)
           d == Deref(i, undef)
           currSym == d.sym
       IN Through(i,
            IF d.fault THEN Eff(1, <<>>, CRASH)
            ELSE IF currSym.scope # currentScope THEN Eff(1, <<>>, RET(15))
            ELSE IF currSym.type = "PROC" THEN Eff(1, <<>>, RET(18))
            ELSE Eff(2, <<EMIT("LOD", 0, LevelDiff(currSym), currSym.address),
                          EMIT("SIO_WRITE", 0, 0, 0)>>, RET(0)))

\* Variant: the symbol's scope is not compared with the active scope.
statement_read_anyScope(undef) ==
  LET sio == <<EMIT("SIO_READ", 0, 0, 0)>>
  IN IF TypeAt(cur + 1) # "identsym" THEN Eff(1, sio, RET(3))
     ELSE LET i == findSymbol(symbolTable, currentScope, TokenAt(cur + 1).lexeme)
              d == Deref(i, undef)
              currSym == d.sym
          IN Through(i,
               IF d.fault THEN Eff(1, sio, CRASH)
               ELSE IF currSym.type # "VAR" THEN Eff(1, sio, RET(19))
               ELSE Eff(2, sio \o <<EMIT("STO", 0, LevelDiff(currSym), currSym.address)>>,
                        RET(0)))

statement_read(undef) ==
  LET sio == <<EMIT("SIO_READ", 0, 0, 0)>>
  IN IF TypeAt(cur + 1) # "identsym" THEN Eff(1, sio, RET(3))
     ELSE LET i == findSymbol(symbolTable, currentScope, TokenAt(cur + 1).lexeme)
              d == Deref(i, undef)
              currSym == d.sym
          IN Through(i,
               IF d.fault THEN Eff(1, sio, CRASH)
               ELSE IF currSym.scope # currentScope THEN Eff(1, sio, RET(15))
               ELSE IF currSym.type # "VAR" THEN Eff(1, sio, RET(19))
               ELSE Eff(2, sio \o <<EMIT("STO", 0, LevelDiff(currSym), currSym.address)>>,
                        RET(0)))

\* The branch a statement frame is in: chosen by the leading token on entry,
\* by the position afterwards.
statement_step(undef) ==
  CASE F.pc = "assignExpr" -> Eff(0, <<>>, RET(F.err))
    [] F.pc = "beginStmt" -> statement_begin
    [] F.pc \in {"ifCond", "ifThen", "ifElse"} -> statement_if
    [] F.pc \in {"whileCond", "whileBody"} -> statement_while
    [] OTHER ->
         CASE getCurrentTokenType = "identsym" -> statement_ident(undef)
           [] getCurrentTokenType = "callsym" -> statement_call(undef)
           [] getCurrentTokenType = "beginsym" -> statement_begin
           [] getCurrentTokenType = "ifsym" -> statement_if
           [] getCurrentTokenType = "whilesym" -> statement_while
           [] getCurrentTokenType = "writesym" -> statement_write(undef)
           [] getCurrentTokenType = "readsym" -> statement_read(undef)
           [] OTHER -> Eff(0, <<>>, RET(0))

statement ==
  /\ At("statement")
  /\ \E undef \in UndefinedReads : Apply(statement_step(undef))

\* ------------------------------------------------------------- condition()
RelOp(type) ==
  CASE type = "eqsym" -> "EQL" [] type = "neqsym" -> "NEQ"
    [] type = "leqsym" -> "LEQ" [] type = "geqsym" -> "GEQ"
    [] type = "lessym" -> "LSS" [] type = "gtrsym" -> "GTR"
    [] OTHER -> "none"

condition_step ==
  CASE F.pc = "start" ->
         IF getCurrentTokenType = "oddsym"
         THEN Eff(1, <<>>, CALL("expression", AtPc("afterOdd")))
         ELSE Eff(0, <<>>, CALL("expression", AtPc("afterRel")))
    [] F.pc = "afterOdd" ->
         IF F.err # 0 THEN Eff(0, <<>>, RET(F.err))
         ELSE Eff(0, <<EMIT("ODD", 0, 0, 0)>>, CALL("expression", AtPc("afterLast")))
    [] F.pc = "afterRel" ->
         IF F.err # 0 THEN Eff(0, <<>>, RET(F.err))
         ELSE IF RelOp(getCurrentTokenType) = "none" THEN Eff(0, <<>>, RET(12))
         ELSE Eff(1, <<EMIT(RelOp(getCurrentTokenType), 0, 0, 0)>>,
                  CALL("expression", AtPc("afterLast")))
    [] OTHER -> Eff(0, <<>>, RET(F.err))

condition == At("condition") /\ Apply(condition_step)

\* ------------------------------------------------------------ expression()
IsAddOp(op) == op = "plussym" \/ op = "minussym"

expression_step ==
  CASE F.pc = "start" ->
         IF IsAddOp(getCurrentTokenType)
         THEN Eff(1, <<>>, CALL("term", [F EXCEPT !.pc = "afterSignTerm",
                                                  !.op = getCurrentTokenType]))
         ELSE Eff(0, <<>>, CALL("term", [F EXCEPT !.pc = "afterTerm",
                                                  !.op = getCurrentTokenType]))
    [] F.pc = "afterSignTerm" ->
         IF F.err # 0 THEN Eff(0, <<>>, RET(F.err))
         ELSE Eff(0, IF F.op = "minussym" THEN <<EMIT("NEG", 0, 0, 0)>> ELSE <<>>,
                  CALL("term", AtPc("afterTerm")))
    [] F.pc = "afterTerm" ->
         IF F.err # 0 THEN Eff(0, <<>>, RET(F.err))
         ELSE IF IsAddOp(F.op) THEN Eff(1, <<>>, CALL("term", AtPc("afterLoopTerm")))
         ELSE Eff(0, <<>>, RET(0))
    [] OTHER ->
         IF F.err # 0 THEN Eff(0, <<>>, RET(F.err))
         ELSE LET code == IF F.op = "plussym" THEN <<EMIT("ADD", 0, 0, 0)>>
                          ELSE <<EMIT("SUB", 0, 0, 0)>>
              IN IF IsAddOp(F.op) THEN Eff(1, code, CALL("term", AtPc("afterLoopTerm")))
                 ELSE Eff(0, code, RET(0))

expression == At("expression") /\ Apply(expression_step)

\* ------------------------------------------------------------------ term()
IsMulOp(op) == op = "multsym" \/ op = "slashsym"

term_step ==
  CASE F.pc = "start" ->
         Eff(0, <<>>, CALL("factor", [F EXCEPT !.pc = "afterFactor",
                                               !.op = getCurrentTokenType]))
    [] F.pc = "afterFactor" ->
         IF F.err # 0 THEN Eff(0, <<>>, RET(F.err))
         ELSE IF IsMulOp(F.op) THEN Eff(1, <<>>, CALL("factor", AtPc("afterLoopFactor")))
         ELSE Eff(0, <<>>, RET(0))
    [] OTHER ->
         IF F.err # 0 THEN Eff(0, <<>>, RET(F.err))
         ELSE LET code == IF F.op = "multsym" THEN <<EMIT("MUL", 0, 0, 0)>>
                          ELSE <<EMIT("DIV", 0, 0, 0)>>
              IN IF IsMulOp(F.op) THEN Eff(1, code, CALL("factor", AtPc("afterLoopFactor")))
                 ELSE Eff(0, code, RET(0))

term == At("term") /\ Apply(term_step)

\* ---------------------------------------------------------------- factor()
factor_step ==
  IF F.pc = "start"
  THEN LET i == findSymbol(symbolTable, currentScope, getCurrentToken.lexeme)
           currSym == symbolTable[i]
       IN IF i = NULL THEN Eff(0, <<>>, RET(15))
          ELSE IF getCurrentTokenType = "identsym"
          THEN IF currSym.type = "PROC" THEN Eff(0, <<>>, RET(14))
               ELSE IF currSym.type = "CONST"
               THEN Eff(1, <<EMIT("LIT", 0, 0, currSym.value)>>, RET(0))
               ELSE Eff(1, <<EMIT("LOD", 0, LevelDiff(currSym), currSym.address)>>, RET(0))
          ELSE IF getCurrentTokenType = "numbersym"
          THEN Eff(1, <<EMIT("LIT", 0, 0, atoi(getCurrentToken.lexeme))>>, RET(0))
          ELSE IF getCurrentTokenType = "lparentsym"
          THEN Eff(1, <<>>, CALL("expression", AtPc("afterExpr")))
          ELSE Eff(0, <<>>, RET(14))
  ELSE IF F.err # 0 THEN Eff(0, <<>>, RET(F.err))
       ELSE IF getCurrentTokenType # "rparentsym" THEN Eff(0, <<>>, RET(13))
       ELSE Eff(1, <<>>, RET(0))

factor == At("factor") /\ Apply(factor_step)

\* ------------------------------------------------------- codeGenerator()
printEmittedCodes(code, n) ==
  [i \in 1..n |-> <<code[i - 1].op, code[i - 1].r, code[i - 1].l, code[i - 1].m>>]

\* Variant: the emitted code is printed whatever program() returned.
PrintedFor_always(err, code, n) == printEmittedCodes(code, n)

\* if(!err) printEmittedCodes();
PrintedFor(err, code, n) == IF err = 0 THEN printEmittedCodes(code, n) ELSE <<>>

\* Entry of codeGenerator up to the call of program().
codeGeneratorOn(words) ==
  /\ status \in {"idle", "returned"}
  /\ tokenList' = TokenListOf(words)
  /\ input' = TokenListOf(words)
  /\ currentTokenInd' = 0
  /\ currentLevel' = 0
  /\ currentScope' = NULL
  /\ nextCodeIndex' = 0
  /\ currentReg' = 0
  /\ symbolTable' = <<>>
  /\ stack' = <<[Frame("codeGenerator") EXCEPT !.pc = "afterProgram"], Frame("program")>>
  /\ status' = "running"
  /\ result' = -1
  /\ out' = <<>>
  /\ ret' = NoRet
  /\ firstErr' = 0
  /\ errTokenInd' = 0
  /\ wildRead' = FALSE
  /\ UNCHANGED <<vmCode, mWrites, history>>

\* The rest of codeGenerator, after program() has returned.
codeGenerator_return ==
  /\ At("codeGenerator")
  /\ out' = PrintedFor(F.err, vmCode, nextCodeIndex)
  /\ currentTokenInd' = 0
  /\ tokenList' = <<>>
  /\ symbolTable' = <<>>
  /\ result' = F.err
  /\ status' = "returned"
  /\ stack' = <<>>
  /\ ret' = NoRet
  /\ history' = Append(history, [input |-> input, result |-> F.err,
                                 out |-> PrintedFor(F.err, vmCode, nextCodeIndex)])
  /\ UNCHANGED <<currentLevel, currentScope, vmCode, nextCodeIndex, currentReg, input,
                 firstErr, errTokenInd, mWrites, wildRead>>

\* -------------------------------------------------------------- the inputs
Declarations ==
  { <<"var", "x", ",", "y", ";">>,
    <<"const", "c", "=", "5", ";", "var", "x", ";">>,
    <<"const", "c", "=", "12", ",", "a", "=", "0", ";", "var", "x", ",", "y", ";",
      "procedure", "p", ";", ";">> }

Statements ==
  { <<>>,
    <<"x", ":=", "x">>, <<"x", ":=", "y">>, <<"x", ":=", "c">>, <<"x", ":=", "5">>,
    <<"x", ":=", "(", "x", ")">>, <<"x", ":=", "x", "+", "y">>,
    <<"x", ":=", "x", "-", "x">>, <<"x", ":=", "+", "x", "y">>,
    <<"x", ":=", "-", "x", "y">>, <<"x", ":=", "-", "x", "y", ";", "x">>,
    <<"x", ":=", "-", "x">>, <<"x", ":=", "x", "*", "y">>, <<"x", ":=", "*", "x">>,
    <<"x", ":=", "p">>, <<"x", ":=">>, <<"x", "=", "x">>, <<"c", ":=", "x">>,
    <<"p", ":=", "x">>, <<"b", ":=", "x">>,
    <<"call", "p">>, <<"call", "x">>, <<"call", "c">>, <<"call", "b">>, <<"call", "5">>,
    <<"begin", "x", ":=", "x", ";", "read", "x", "end">>,
    <<"begin", "read", "x", ";", "end">>, <<"begin", "end">>,
    <<"begin", "read", "x", "read", "y", "end">>, <<"begin", "b", "end">>,
    <<"if", "x", "=", "y", "then", "read", "x">>,
    <<"if", "x", "=", "y", "then", "read", "x", "else", "write", "y">>,
    <<"if", "x", "=", "x", "then", "if", "x", "<", "x", "then", "read", "x",
      "else", "write", "x">>,
    <<"if", "x", "=", "x", "then", "read", "x", "else", "b">>,
    <<"if", "odd", "x", "then", "read", "x">>,
    <<"if", "odd", "x", "y", "then", "read", "x">>,
    <<"if", "odd", "x", "x", "then", "x", ":=", "x", "else", "call", "p">>,
    <<"if", "x", "then", "read", "x">>, <<"if", "x", "=", "y", "read", "x">>,
    <<"if", "x", "<>", "y", "then", "write", "x">>,
    <<"if", "x", "<", "c", "then", "write", "x">>,
    <<"if", "c", "<=", "x", "then", "write", "x">>,
    <<"if", "x", ">", "y", "then", "write", "x">>,
    <<"if", "x", ">=", "x", "then", "call", "p">>,
    <<"if", "x", ":=", "x", "then", "call", "p">>,
    <<"while", "x", "<", "y", "do", "read", "x">>,
    <<"while", "x", "<", "y", "read", "x">>,
    <<"while", "odd", "x", "y", "do", "x", ":=", "y">>,
    <<"while", "x", "=", "x", "do", "if", "x", "=", "x", "then", "read", "x",
      "else", "write", "x">>,
    <<"while", "x", "=", "x", "do", "b">>,
    <<"write", "x">>, <<"write", "c">>, <<"write", "p">>, <<"write", "b">>,
    <<"write", "5">>,
    <<"read", "x">>, <<"read", "c">>, <<"read", "p">>, <<"read", "b">>,
    <<"read", "5">> }

Endings == { <<".">>, <<>>, <<";", ".">> }

\* The declarations that open a procedure body around a statement.
InnerDeclarations ==
  { <<>>, <<"var", "x", ";">>, <<"const", "c", "=", "1", ";", "var", "y", ";">>,
    <<"procedure", "p", ";", ";">> }

Scenario1 ==
  <<"const", "a", "=", "5", ";", "var", "b", ";", "begin", "b", ":=", "a", "+", "1",
    ";", "write", "b", "end", ".">>

Scenarios ==
  { Scenario1,
    <<>>, <<".">>, <<"x", ":=", "x", ".">>, <<"call", "p", ".">>, <<"write", "x", ".">>,
    <<"read", "x", ".">>, <<"begin", "end", ".">>, <<"begin", "end">>,
    <<"var", "x", "begin", "x", ":=", "1", "end", ".">>,
    <<"var", "x", ";", "begin", "call", "x", "end", ".">>,
    <<"if", "x", "then", "y", ":=", "1">>,
    <<"var", "x", ";", "procedure", "p", ";", "var", "x", ";", "procedure", "q", ";",
      "var", "x", ";", "x", ":=", "x", ";", "x", ":=", "x", ";", "x", ":=", "x", ".">>,
    <<"var", "x", ";", "procedure", "p", ";", "procedure", "q", ";", "write", "x", ";",
      "call", "q", ";", "call", "p", ".">>,
    <<"procedure", "p", ";", ";", "procedure", "q", ";", "call", "p", ";", "call", "q", ".">>,
    <<"procedure", "p", ";", "call", "p", ";", ".">>,
    <<"procedure", ";">>, <<"procedure", "p", "x">>, <<"procedure", "p", ";", "x">>,
    <<"procedure", "p", ";", "read", "p", ";", ".">>,
    <<"const", "c", ";">>, <<"const", "=", "5", ";">>, <<"const", "c", "=", "x", ";">>,
    <<"const", "c", "=", "5", ".">>, <<"const", "c", "=", "5", ",", "x", ";">>,
    <<"var", ";">>, <<"var", "x", ",", ";">>, <<"var", "x", ".">>,
    <<"var", "a", ",", "b", ",", "c", ",", "x", ",", "y", ";", "begin", "read", "a", ";",
      "read", "b", ";", "read", "c", ";", "write", "x", ";", "write", "y", "end", ".">>,
    <<"var", "a", ",", "b", ",", "c", ",", "x", ",", "y", ",", "p", ",", "q", ",",
      "a", ",", "b", ",", "c", ",", "x", ",", "y", ",", "p", ",", "q", ",", "a", ",",
      "b", ",", "c", ";", "write", "x", ".">> }

Programs ==
  { d \o s \o e : d \in Declarations, s \in Statements, e \in Endings } \cup
  { <<"var", "x", ",", "y", ";", "procedure", "p", ";">> \o d \o s \o <<";", "call", "p", ".">> :
      d \in InnerDeclarations, s \in Statements } \cup
  Scenarios

\* --------------------------------------------------------- the state machine
Init ==
  /\ tokenList = <<>>
  /\ currentTokenInd = 0
  /\ currentLevel = 0
  /\ currentScope = NULL
  /\ symbolTable = <<>>
  /\ vmCode = [i \in 0..(MAX_CODE_LENGTH - 1) |-> Instruction("NUL", 0, 0, 0)]
  /\ nextCodeIndex = 0
  /\ currentReg = 0
  /\ stack = <<>>
  /\ status = "idle"
  /\ result = -1
  /\ out = <<>>
  /\ input = <<>>
  /\ ret = NoRet
  /\ firstErr = 0
  /\ errTokenInd = 0
  /\ mWrites = [i \in 0..(MAX_CODE_LENGTH - 1) |-> 0]
  /\ wildRead = FALSE
  /\ history = <<>>

\* The process calls codeGenerator once.
codeGenerator == status = "idle" /\ \E words \in Programs : codeGeneratorOn(words)

Next ==
  \/ codeGenerator
  \/ program
  \/ block
  \/ const_declaration
  \/ var_declaration
  \/ proc_declaration
  \/ statement
  \/ condition
  \/ expression
  \/ term
  \/ factor
  \/ codeGenerator_return

Spec == Init /\ [][Next]_vars

\* ------------------------------------------------ more than one compilation
\* The process calls codeGenerator up to MaxRuns times, each call entered with
\* whatever the call before it left in the globals.
MaxRuns == 2

RerunPrograms ==
  { <<"const", "c", "=", "5", ";", "var", "x", ";", "write", "c", ".">>,
    <<"var", "x", ",", "y", ";", "procedure", "p", ";", "x", ":=", "y", ";",
      "call", "p", ".">>,
    <<"var", "x", ",", "y", ";", "if", "x", "=", "y", "then", "read", "x",
      "else", "write", "y", ".">>,
    <<"var", "x", ",", "y", ";", "x", ":=", "y", ".">> }

codeGenerator_first ==
  status = "idle" /\ \E words \in RerunPrograms : codeGeneratorOn(words)

codeGenerator_again ==
  /\ status = "returned"
  /\ Len(history) < MaxRuns
  /\ \E words \in RerunPrograms : codeGeneratorOn(words)

NextRerun ==
  \/ codeGenerator_first
  \/ codeGenerator_again
  \/ program
  \/ block
  \/ const_declaration
  \/ var_declaration
  \/ proc_declaration
  \/ statement
  \/ condition
  \/ expression
  \/ term
  \/ factor
  \/ codeGenerator_return

SpecRerun == Init /\ [][NextRerun]_vars

\* ------------------------------------------------------------- progress
\* The process is sequential: while a step of the call is left, it is taken.
LiveSpec == Spec /\ WF_vars(Next)

\* ------------------------------------------------------------ vocabulary
\* Addresses of the instructions emitted so far.
Emitted == 0..(nextCodeIndex - 1)

\* A call of fn has just returned v.
Returned(fn, v) == status = "running" /\ ret.fn = fn /\ ret.err = v

\* The same, in a run that has read nothing through a NULL pointer.
ReturnedClean(fn, v) == Returned(fn, v) /\ ~wildRead

\* The table entry a use of `name` resolves to in the active scope (NULL: none).
Resolve(name) == findSymbol(symbolTable, currentScope, name)

HaltCount == Cardinality({i \in Emitted : vmCode[i].op = "SIO_HALT"})

\* ---------------------------------------------------------------------- C1
\* C1: once a production has returned a nonzero code, the cursor stays where
\* it was when the code was detected and nothing is printed; codeGenerator
\* returns exactly that first code, and it prints the emitted instructions
\* only when it returns 0.
C1_FirstErrorIsResult ==
  /\ (status = "running" /\ firstErr # 0) =>
        /\ currentTokenInd = errTokenInd
        /\ out = <<>>
        /\ \A i \in 1..Len(stack) : stack[i].pc # "start"
  /\ status = "returned" =>
        /\ result = firstErr
        /\ result # 0 => out = <<>>
        /\ result = 0 => Len(out) = nextCodeIndex /\ nextCodeIndex > 0

\* An error found deep in the descent, after code had been emitted.
C1_Witness ==
  /\ status = "returned"
  /\ result # 0
  /\ nextCodeIndex > 3
  /\ errTokenInd > 3

\* ---------------------------------------------------------------------- C2
\* C2: compiling scenario 1 returns 0 and prints, in this order, LIT 5, LIT 1,
\* ADD, a STO to b, a LOD of b, a write, and halt as the last line.
C2_Scenario1Compiles ==
  (status = "returned" /\ input = TokenListOf(Scenario1)) =>
     /\ result = 0
     /\ Len(out) > 0
     /\ out[Len(out)][1] = "SIO_HALT"
     /\ \E i1, i2, i3, i4, i5, i6 \in 1..Len(out) :
          /\ i1 < i2 /\ i2 < i3 /\ i3 < i4 /\ i4 < i5 /\ i5 < i6
          /\ out[i1] = <<"LIT", 0, 0, 5>>
          /\ out[i2] = <<"LIT", 0, 0, 1>>
          /\ out[i3][1] = "ADD"
          /\ out[i4][1] = "STO"
          /\ out[i5][1] = "LOD" /\ out[i5][4] = out[i4][4]
          /\ out[i6][1] = "SIO_WRITE"

\* ---------------------------------------------------------------------- C3
\* C3: when an assignment to a declared identifier has been compiled with
\* result 0, the last instruction emitted is STO with the target's address and
\* level difference.
C3_AssignmentEmitsStore ==
  (/\ ReturnedClean("statement", 0)
   /\ TypeAt(ret.tok0) = "identsym"
   /\ Resolve(TokenAt(ret.tok0).lexeme) # NULL) =>
     LET currSym == symbolTable[Resolve(TokenAt(ret.tok0).lexeme)]
     IN /\ nextCodeIndex > ret.nci0
        /\ vmCode[nextCodeIndex - 1] =
             Instruction("STO", 0, currentLevel - currSym.level, currSym.address)

\* ---------------------------------------------------------------------- C4
\* A + or - token is a sign when it opens an expression, an operator otherwise.
IsSign(i, first) == i = first \/ TypeAt(i - 1) = "lparentsym"

\* C4: when expression returns 0 the current token is not + or -, and the code
\* it emitted holds one ADD or SUB per operator token consumed and one NEG per
\* leading minus.
C4_ExpressionParsesChain ==
  ReturnedClean("expression", 0) =>
     LET consumed == ret.tok0..(currentTokenInd - 1)
         code == ret.nci0..(nextCodeIndex - 1)
     IN /\ ~IsAddOp(getCurrentTokenType)
        /\ Cardinality({i \in code : vmCode[i].op \in {"ADD", "SUB"}}) =
             Cardinality({i \in consumed : IsAddOp(TypeAt(i)) /\ ~IsSign(i, ret.tok0)})
        /\ Cardinality({i \in code : vmCode[i].op = "NEG"}) =
             Cardinality({i \in consumed : TypeAt(i) = "minussym" /\ IsSign(i, ret.tok0)})

\* ---------------------------------------------------------------------- C5
\* C5: factor on a number returns 0, having emitted one LIT of its value and
\* consumed that one token; factor on a left parenthesis goes past it, and
\* returns 0 only behind a right parenthesis.
C5_FactorLiteralAndParenthesis ==
  /\ (status = "running" /\ ~wildRead /\ ret.fn = "factor"
        /\ TypeAt(ret.tok0) = "numbersym") =>
        /\ ret.err = 0
        /\ currentTokenInd = ret.tok0 + 1
        /\ nextCodeIndex = ret.nci0 + 1
        /\ vmCode[ret.nci0] = Instruction("LIT", 0, 0, atoi(TokenAt(ret.tok0).lexeme))
  /\ (status = "running" /\ ~wildRead /\ ret.fn = "factor"
        /\ TypeAt(ret.tok0) = "lparentsym") =>
        /\ currentTokenInd > ret.tok0
        /\ ret.err = 0 => TypeAt(currentTokenInd - 1) = "rparentsym"

\* ---------------------------------------------------------------------- C6
\* C6: when an if statement has been compiled with result 0, its JPC targets
\* the first instruction of the else-branch, just past the JMP that follows
\* the then-branch, and that JMP targets the end of the else-branch; without
\* else the JPC targets the end of the then-branch.
C6_IfJumpTargets ==
  /\ (ReturnedClean("statement", 0) /\ ret.pc = "ifElse") =>
        /\ vmCode[ret.jmp].op = "JPC"
        /\ vmCode[ret.jmp2].op = "JMP"
        /\ vmCode[ret.jmp].m = ret.jmp2 + 1
        /\ vmCode[ret.jmp2].m = nextCodeIndex
  /\ (ReturnedClean("statement", 0) /\ ret.pc = "ifThen") =>
        /\ vmCode[ret.jmp].op = "JPC"
        /\ vmCode[ret.jmp].m = nextCodeIndex

\* ---------------------------------------------------------------------- C7
\* C7: when condition returns 0 the last instruction emitted is its test: ODD
\* for the odd form, else the comparison of its operator; it returns 12 only
\* for the relational form, on a token that is no relational operator.
C7_ConditionEndsWithTest ==
  /\ ReturnedClean("condition", 0) =>
        /\ nextCodeIndex > ret.nci0
        /\ TypeAt(ret.tok0) = "oddsym" => vmCode[nextCodeIndex - 1].op = "ODD"
        /\ TypeAt(ret.tok0) # "oddsym" =>
             vmCode[nextCodeIndex - 1].op \in {"EQL", "NEQ", "LSS", "LEQ", "GTR", "GEQ"}
  /\ ReturnedClean("condition", 12) =>
        /\ TypeAt(ret.tok0) # "oddsym"
        /\ RelOp(getCurrentTokenType) = "none"

\* ---------------------------------------------------------------------- C8
\* C8: a compilation with result 0 prints halt exactly once, as its last line;
\* halt is in the code only once program has returned 0 behind a consumed
\* period; and when block has returned 0 before a token that is not the period,
\* program returns 6 without emitting.
C8_HaltOnlyAtEnd ==
  /\ [](/\ (status = "returned" /\ result = 0) =>
             /\ Len(out) > 0
             /\ out[Len(out)][1] = "SIO_HALT"
             /\ Cardinality({i \in 1..Len(out) : out[i][1] = "SIO_HALT"}) = 1
        /\ (status = "running" /\ HaltCount > 0) =>
             /\ Len(stack) = 1
             /\ Returned("program", 0)
             /\ TypeAt(currentTokenInd - 1) = "periodsym"
        /\ (status = "returned" /\ result = 6) => HaltCount = 0)
  /\ [][(At("program") /\ Top.pc = "afterBlock" /\ Top.err = 0
           /\ getCurrentTokenType # "periodsym") =>
          (ret'.fn = "program" /\ ret'.err = 6 /\ nextCodeIndex' = nextCodeIndex)]_vars

\* An accepted program: halt closes the printed code.
C8_Witness ==
  /\ status = "returned"
  /\ result = 0
  /\ nextCodeIndex > 5
  /\ out[nextCodeIndex] = <<"SIO_HALT", 0, 0, 3>>

\* ---------------------------------------------------------------------- C9
\* The identifier a statement that begins at token i uses, <<>> when none.
UsedName(i) ==
  IF TypeAt(i) = "identsym" THEN TokenAt(i).lexeme
  ELSE IF TypeAt(i) \in {"callsym", "writesym", "readsym"} /\ TypeAt(i + 1) = "identsym"
       THEN TokenAt(i + 1).lexeme
  ELSE <<>>

\* C9: a statement whose identifier is absent from the symbol table returns
\* 15, and the process never faults on the absent symbol.
C9_AbsentSymbolIsError15 ==
  /\ status # "crashed"
  /\ (/\ status = "running"
      /\ ret.fn = "statement"
      /\ UsedName(ret.tok0) # <<>>
      /\ Resolve(UsedName(ret.tok0)) = NULL) => ret.err = 15

\* --------------------------------------------------------------------- C10
\* C10: a use of an identifier that resolves to a symbol of another scope
\* than the active one fails and emits neither load nor store nor call.
C10_ForeignScopeRejected ==
  /\ (/\ status = "running"
      /\ ~wildRead
      /\ ret.fn = "factor"
      /\ TypeAt(ret.tok0) = "identsym"
      /\ Resolve(TokenAt(ret.tok0).lexeme) # NULL
      /\ symbolTable[Resolve(TokenAt(ret.tok0).lexeme)].scope # currentScope) =>
        /\ ret.err # 0
        /\ nextCodeIndex = ret.nci0
  /\ (/\ status = "running"
      /\ ret.fn = "statement"
      /\ UsedName(ret.tok0) # <<>>
      /\ Resolve(UsedName(ret.tok0)) # NULL
      /\ symbolTable[Resolve(UsedName(ret.tok0))].scope # currentScope) =>
        /\ ret.err # 0
        /\ \A i \in ret.nci0..(nextCodeIndex - 1) :
             vmCode[i].op \notin {"LOD", "LIT", "STO", "CAL"}
  /\ (status = "returned" /\ result = 0 /\ ~wildRead) =>
        \A i \in 1..Len(out) : out[i][1] = "LOD" => out[i][3] = 0

\* --------------------------------------------------------------------- C11
\* The symbol the statement or factor that has just returned used, when its
\* name resolves to a symbol declared in the active scope.
UsedByStatement == symbolTable[Resolve(UsedName(ret.tok0))]

StatementUsesLocal ==
  /\ status = "running"
  /\ ret.fn = "statement"
  /\ UsedName(ret.tok0) # <<>>
  /\ Resolve(UsedName(ret.tok0)) # NULL
  /\ UsedByStatement.scope = currentScope

FactorUsesLocal ==
  /\ status = "running"
  /\ ret.fn = "factor"
  /\ TypeAt(ret.tok0) = "identsym"
  /\ Resolve(TokenAt(ret.tok0).lexeme) # NULL
  /\ symbolTable[Resolve(TokenAt(ret.tok0).lexeme)].scope = currentScope

\* C11: a name that resolves in the active scope to a symbol of the wrong kind
\* gives the code of its position: call of a non-Proc 17 and no CAL,
\* assignment to a non-Var 16, write of a Proc 18, read into a non-Var 19, a
\* Proc as factor 14.
C11_KindMismatchCodes ==
  /\ (StatementUsesLocal /\ TypeAt(ret.tok0) = "callsym"
        /\ UsedByStatement.type # "PROC") =>
        /\ ret.err = 17
        /\ \A i \in ret.nci0..(nextCodeIndex - 1) : vmCode[i].op # "CAL"
  /\ (StatementUsesLocal /\ TypeAt(ret.tok0) = "identsym"
        /\ UsedByStatement.type # "VAR") => ret.err = 16
  /\ (StatementUsesLocal /\ TypeAt(ret.tok0) = "writesym"
        /\ UsedByStatement.type = "PROC") => ret.err = 18
  /\ (StatementUsesLocal /\ TypeAt(ret.tok0) = "readsym"
        /\ UsedByStatement.type # "VAR") => ret.err = 19
  /\ (FactorUsesLocal
        /\ symbolTable[Resolve(TokenAt(ret.tok0).lexeme)].type = "PROC") => ret.err = 14

\* A call of a variable of the active scope has just been refused.
C11_Witness ==
  /\ StatementUsesLocal
  /\ TypeAt(ret.tok0) = "callsym"
  /\ UsedByStatement.type = "VAR"
  /\ ret.err = 17

\* --------------------------------------------------------------------- C12
\* C12: a use of a name that resolves to a Const emits LIT of the constant's
\* value and no LOD, in factor and in write alike; no accepted compilation
\* prints a LOD for a constant.
C12_ConstantsAreInlined ==
  /\ (FactorUsesLocal /\ ret.err = 0
        /\ symbolTable[Resolve(TokenAt(ret.tok0).lexeme)].type = "CONST") =>
        /\ nextCodeIndex = ret.nci0 + 1
        /\ vmCode[ret.nci0] =
             Instruction("LIT", 0, 0, symbolTable[Resolve(TokenAt(ret.tok0).lexeme)].value)
  /\ (StatementUsesLocal /\ ret.err = 0 /\ TypeAt(ret.tok0) = "writesym"
        /\ UsedByStatement.type = "CONST") =>
        /\ \A i \in ret.nci0..(nextCodeIndex - 1) : vmCode[i].op # "LOD"
        /\ \E i \in ret.nci0..(nextCodeIndex - 1) :
             vmCode[i] = Instruction("LIT", 0, 0, UsedByStatement.value)

\* --------------------------------------------------------------------- C13
\* A step that wrote an instruction wrote it inside the array.
EmitInsideArray ==
  nextCodeIndex' > nextCodeIndex =>
    /\ nextCodeIndex < MAX_CODE_LENGTH
    /\ \A i \in nextCodeIndex..(nextCodeIndex' - 1) : i \in DOMAIN vmCode'
    /\ \A i \in DOMAIN vmCode :
         (i >= nextCodeIndex' /\ i >= nextCodeIndex) => vmCode'[i].op = vmCode[i].op

\* The process has ended inside emit: nothing was returned, nothing printed.
EndedInEmit ==
  status = "exited" =>
    /\ nextCodeIndex = MAX_CODE_LENGTH
    /\ result = -1
    /\ out = <<>>
    /\ stack = <<>>

\* C13: nextCodeIndex stays within 0..MAX_CODE_LENGTH and every instruction is
\* written below MAX_CODE_LENGTH; an emit at nextCodeIndex = MAX_CODE_LENGTH
\* ends the process there, so codeGenerator returns no code and prints nothing,
\* and nothing runs afterwards.
C13_EmitStaysInBounds ==
  /\ [](nextCodeIndex \in 0..MAX_CODE_LENGTH /\ DOMAIN vmCode = 0..(MAX_CODE_LENGTH - 1)
        /\ EndedInEmit)
  /\ [][EmitInsideArray /\ (status = "exited" => status' = "exited")]_vars

\* A program that needs more than MAX_CODE_LENGTH instructions has ended in emit.
C13_Witness == status = "exited" /\ nextCodeIndex = MAX_CODE_LENGTH /\ out = <<>>

\* --------------------------------------------------------------------- C14
\* C14: two calls of codeGenerator on the same token sequence return the same
\* code and print the same lines, whatever the call before left behind.
C14_RecompilationIsIdempotent ==
  \A i, j \in 1..Len(history) :
    history[i].input = history[j].input =>
      /\ history[i].result = history[j].result
      /\ history[i].out = history[j].out

\* --------------------------------------------------------------------- C15
\* The code of the block that has just returned 0: JMP, declarations, INC 0 0 4,
\* statement, RTN.
BlockLayout ==
  Returned("block", 0) =>
    LET first == ret.nci0
        inc == vmCode[first].m
        last == nextCodeIndex - 1
    IN /\ vmCode[first] = Instruction("JMP", 0, 0, inc)
       /\ first < inc /\ inc < last
       /\ vmCode[inc] = Instruction("INC", 0, 0, 4)
       /\ vmCode[last] = Instruction("RTN", 0, 0, 0)
       /\ inc > first + 1 =>
            vmCode[inc - 1] \in {Instruction("INC", 0, 0, 1), Instruction("RTN", 0, 0, 0)}
       /\ \A i \in (inc + 1)..(last - 1) : vmCode[i].op \notin {"INC", "RTN"}

\* The printed code of an accepted program starts with the program block's
\* JMP to its INC 0 0 4 and ends with RTN, SIO_HALT.
ProgramBlockPrinted ==
  (status = "returned" /\ result = 0) =>
    /\ out[1][1] = "JMP"
    /\ out[out[1][4] + 1] = <<"INC", 0, 0, 4>>
    /\ out[Len(out) - 1] = <<"RTN", 0, 0, 0>>

\* A block's patched JMP is not written again.
BlockJumpKept ==
  \A i \in Emitted :
    (/\ vmCode[i].op = "JMP"
     /\ vmCode[i].m \in (i + 1)..(nextCodeIndex - 1)
     /\ vmCode[vmCode[i].m] = Instruction("INC", 0, 0, 4)
     /\ nextCodeIndex' >= nextCodeIndex) =>
       /\ vmCode'[i] = vmCode[i]
       /\ vmCode'[vmCode[i].m] = vmCode[vmCode[i].m]

\* C15: the JMP a successfully compiled block emitted first points, in the
\* final code, at that block's INC 0 0 4, which follows the code of the
\* block's declarations and precedes its statement code; the block's last
\* instruction is RTN.
C15_BlockJumpsToItsFrame ==
  /\ [](BlockLayout /\ ProgramBlockPrinted)
  /\ [][BlockJumpKept]_vars

\* A procedure body with declarations of its own has been compiled.
C15_Witness ==
  /\ Returned("block", 0)
  /\ ret.nci0 > 0
  /\ vmCode[ret.nci0].m > ret.nci0 + 1

\* --------------------------------------------------------------------- C16
\* The procedure whose body is being compiled records the address at which
\* its block starts, and the block emits its JMP there.
ProcAddressIsBlockStart ==
  /\ (status = "running" /\ currentScope # NULL /\ Top.fn = "block" /\ Top.pc = "start") =>
        /\ symbolTable[currentScope].type = "PROC"
        /\ symbolTable[currentScope].address = nextCodeIndex
  /\ (Returned("block", 0) /\ currentScope # NULL) =>
        /\ symbolTable[currentScope].address = ret.nci0
        /\ ret.jmpAddr = ret.nci0
  /\ status = "running" =>
        \A k \in 1..Len(symbolTable) :
          (symbolTable[k].type = "PROC" /\ symbolTable[k].address < nextCodeIndex) =>
             vmCode[symbolTable[k].address].op = "JMP"

\* The CAL emitted for a declared name carries the address its symbol records.
CallUsesRecordedAddress ==
  (Returned("statement", 0) /\ TypeAt(ret.tok0) = "callsym"
     /\ Resolve(UsedName(ret.tok0)) # NULL) =>
     /\ UsedByStatement.type = "PROC"
     /\ nextCodeIndex = ret.nci0 + 1
     /\ vmCode[ret.nci0] =
          Instruction("CAL", 0, currentLevel - UsedByStatement.level, UsedByStatement.address)
     /\ UsedByStatement.address < ret.nci0
     /\ vmCode[UsedByStatement.address].op = "JMP"

\* In the printed code of a program whose names are all declared, every CAL
\* targets a JMP.
CallsPrinted ==
  (status = "returned" /\ result = 0 /\ ~wildRead) =>
    \A i \in 1..Len(out) : out[i][1] = "CAL" => out[out[i][4] + 1][1] = "JMP"

\* C16: the instruction at a Proc symbol's recorded address is the JMP its own
\* block emitted first, and the CAL emitted for a call of a declared procedure
\* has that recorded address as its modifier.
C16_ProcAddressIsItsJump ==
  ProcAddressIsBlockStart /\ CallUsesRecordedAddress /\ CallsPrinted

\* A call of a procedure declared after some variables has been compiled.
C16_Witness ==
  /\ Returned("statement", 0)
  /\ TypeAt(ret.tok0) = "callsym"
  /\ Resolve(UsedName(ret.tok0)) # NULL
  /\ UsedByStatement.address > 1
  /\ vmCode[ret.nci0].op = "CAL"

\* --------------------------------------------------------------------- C17
\* C17: in an accepted compilation every placeholder jump has had its
\* modifier written exactly once since it was emitted, and no JMP or JPC of
\* the final code keeps the modifier 0.
C17_PlaceholdersPatchedOnce ==
  (status = "returned" /\ result = 0 /\ ~wildRead) =>
    \A i \in Emitted :
      /\ vmCode[i].op = "JPC" => (mWrites[i] = 1 /\ vmCode[i].m # 0)
      \* the JMP that closes a while loop is emitted with its target
      /\ vmCode[i].op = "JMP" => (mWrites[i] <= 1 /\ vmCode[i].m # 0)

\* --------------------------------------------------------------------- C18
\* The calls of proc_declaration that are compiling a procedure's block,
\* outermost first.
IsEnclosing(f) == f.fn = "proc_declaration" /\ f.pc = "afterBlock"

Enclosing == SelectSeq(stack, IsEnclosing)

\* The scope saved by each of them, then the active scope.
ScopeChain == [k \in 1..(Len(Enclosing) + 1) |->
                 IF k <= Len(Enclosing) THEN Enclosing[k].tempSym ELSE currentScope]

\* While no error has been returned, currentLevel counts the procedure bodies
\* being compiled and currentScope is the symbol of the innermost of them.
LevelAndScopeFollowNesting ==
  (status = "running" /\ firstErr = 0) =>
    /\ currentLevel = Len(Enclosing)
    /\ ScopeChain[1] = NULL
    /\ \A k \in 2..Len(ScopeChain) :
         /\ ScopeChain[k] \in 1..Len(symbolTable)
         /\ symbolTable[ScopeChain[k]].type = "PROC"
         /\ symbolTable[ScopeChain[k]].scope = ScopeChain[k - 1]
         /\ symbolTable[ScopeChain[k]].level = k - 2

\* A symbol's level is the length of its chain of enclosing procedures.
SymbolsRecordNesting ==
  \A i \in 1..Len(symbolTable) :
    LET s == symbolTable[i]
    IN IF s.scope = NULL THEN s.level = 0
       ELSE /\ s.scope \in 1..(i - 1)
            /\ symbolTable[s.scope].type = "PROC"
            /\ s.level = symbolTable[s.scope].level + 1

\* A step that inserts symbols gives them the level and scope of the
\* declaration's position.
InsertedAtPosition ==
  (status = "running" /\ status' = "running" /\ Len(symbolTable') > Len(symbolTable)) =>
    \A i \in (Len(symbolTable) + 1)..Len(symbolTable') :
      /\ symbolTable'[i].level = currentLevel
      /\ symbolTable'[i].scope = currentScope
      /\ firstErr = 0
      /\ Top.fn \in {"const_declaration", "var_declaration", "proc_declaration"}

\* proc_declaration, once the block it called has returned 0, puts back the
\* level and scope of before the procedure.
RestoredAfterBlock ==
  (status = "running" /\ status' = "running" /\ IsEnclosing(Top) /\ Top.err = 0
     /\ stack' # stack) =>
    /\ currentLevel' = currentLevel - 1
    /\ currentLevel' = Len(Enclosing) - 1
    /\ currentScope' = Top.tempSym
    /\ currentScope' = symbolTable[currentScope].scope

\* C18: every inserted symbol records as level the number of procedure bodies
\* enclosing its declaration and as scope the nearest enclosing Proc symbol,
\* and when a procedure's block has compiled with result 0 proc_declaration
\* restores currentLevel and currentScope to their values before the procedure.
C18_LevelAndScopeOfSymbols ==
  /\ [](LevelAndScopeFollowNesting /\ SymbolsRecordNesting)
  /\ [][InsertedAtPosition /\ RestoredAfterBlock]_vars

\* A procedure nested in a procedure has been compiled and the level and
\* scope of its parent are back.
C18_Witness ==
  /\ status = "running" /\ firstErr = 0
  /\ Top.fn = "proc_declaration" /\ Top.pc = "start"
  /\ currentLevel = 1
  /\ \E i \in 1..Len(symbolTable) : symbolTable[i].level = 2

\* --------------------------------------------------------------------- C19
\* Every Var symbol's address is the index of an INC 0 0 1, and no two
\* Var symbols share one.
VarAddressIsItsInc ==
  status = "running" =>
    /\ \A i \in 1..Len(symbolTable) :
         symbolTable[i].type = "VAR" =>
           /\ symbolTable[i].address \in Emitted
           /\ vmCode[symbolTable[i].address] = Instruction("INC", 0, 0, 1)
           /\ \A j \in 1..Len(symbolTable) :
                (symbolTable[j].type = "VAR" /\ symbolTable[j].address = symbolTable[i].address)
                   => j = i
    /\ Cardinality({a \in Emitted : vmCode[a] = Instruction("INC", 0, 0, 1)}) =
         Cardinality({i \in 1..Len(symbolTable) : symbolTable[i].type = "VAR"})

\* The declaration group that has just been compiled: its variables are the
\* last entries of the table, with the addresses of the INCs it emitted, in
\* order.
GroupIsConsecutive ==
  (status = "running" /\ ret.fn = "var_declaration" /\ ret.err \in {0, 4}) =>
    LET n == nextCodeIndex - ret.nci0
        base == Len(symbolTable) - n
    IN /\ n >= 1 /\ base >= 0
       /\ \A k \in 1..n :
            /\ symbolTable[base + k].type = "VAR"
            /\ symbolTable[base + k].address = ret.nci0 + k - 1
            /\ symbolTable[base + k].name = TokenAt(ret.tok0 + 2 * k - 1).lexeme

\* C19: the address in a Var symbol is the index of the INC 0 0 1 emitted for
\* that variable: the variables of one group get consecutive increasing
\* addresses and there is exactly one INC 0 0 1 per declared variable.
C19_VarAddressIsItsInc == VarAddressIsItsInc /\ GroupIsConsecutive

\* A group of two variables has been declared inside a block that already
\* holds code.
C19_Witness ==
  /\ Returned("var_declaration", 0)
  /\ nextCodeIndex = ret.nci0 + 2
  /\ symbolTable[Len(symbolTable)].address = ret.nci0 + 1
  /\ ret.nci0 >= 1

\* --------------------------------------------------------------------- C20
\* C20: for every token sequence the run of codeGenerator ends, and it ends
\* by returning a code or by the capacity abort in emit.
C20_EndsByReturnOrAbort == <>(status \in {"returned", "exited"})

\* --------------------------------------------------------------------- C21
\* The call, read or write of a declared name that has just been compiled:
\* the symbol's level is the level of the use, and the instruction emitted
\* for the symbol has level difference 0.
UseSiteLevelDiff ==
  (Returned("statement", 0) /\ TypeAt(ret.tok0) \in {"callsym", "readsym", "writesym"}
     /\ Resolve(UsedName(ret.tok0)) # NULL) =>
     /\ UsedByStatement.scope = currentScope
     /\ UsedByStatement.level = currentLevel
     /\ \E i \in ret.nci0..(nextCodeIndex - 1) :
          /\ vmCode[i].op = (CASE TypeAt(ret.tok0) = "callsym" -> "CAL"
                               [] TypeAt(ret.tok0) = "readsym" -> "STO"
                               [] OTHER -> "LOD")
          /\ vmCode[i].m = UsedByStatement.address
     /\ \A i \in ret.nci0..(nextCodeIndex - 1) : vmCode[i].l = 0

\* No call or store emitted so far, or printed for an accepted program whose
\* names are all declared, has a level difference other than 0.
NoCallOrStoreAcrossLevels ==
  /\ (status = "running" /\ ~wildRead) =>
        \A i \in Emitted : vmCode[i].op \in {"CAL", "STO"} => vmCode[i].l = 0
  /\ (status = "returned" /\ result = 0 /\ ~wildRead) =>
        \A i \in 1..Len(out) : out[i][1] \in {"CAL", "STO"} => out[i][3] = 0

\* C21: every CAL, STO and LOD that statement emits for a call, read or write
\* has level difference 0, because the symbol passed the scope-equality test
\* and so was declared at the level of the use; no accepted program contains
\* a call or store with a nonzero level difference.
C21_StatementLevelDiffIsZero == UseSiteLevelDiff /\ NoCallOrStoreAcrossLevels

\* A read into a variable declared inside a procedure has been compiled in
\* that procedure's body.
C21_Witness ==
  /\ Returned("statement", 0)
  /\ TypeAt(ret.tok0) = "readsym"
  /\ Resolve(UsedName(ret.tok0)) # NULL
  /\ currentLevel >= 1
  /\ vmCode[nextCodeIndex - 1] = Instruction("STO", 0, 0, UsedByStatement.address)

====
